---- MODULE Spec2Model ----
(***************************************************************************)
(* The Infinibrowser API client (src/src/client.ts, latest revision,       *)
(* lines 306-514): request building, the timeout-guarded send and the      *)
(* discriminated result it returns, and $refined.                          *)
(***************************************************************************)
EXTENDS Integers, Sequences, FiniteSets, TLC

\* The fields of the records below, each record written in this order: of a
\* config, a RequestInit, a URL, a lineage element, a call, an error body, an
\* error, a result, a response and a request.
FieldNames ==
  DOMAIN [API_URL |-> 0, timeout |-> 0, request |-> 0,
          method |-> 0, body |-> 0, signal |-> 0, headers |-> 0,
          base |-> 0, path |-> 0, query |-> 0,
          id |-> 0, emoji |-> 0, offset |-> 0, steps |-> 0, client |-> 0,
          code |-> 0, class |-> 0, name |-> 0, message |-> 0,
          ok |-> 0, error_code |-> 0, error |-> 0, data |-> 0, response |-> 0,
          status |-> 0, text |-> 0, of |-> 0,
          url |-> 0, init |-> 0, json |-> 0, str |-> 0, num |-> 0, undefined |-> 0]

\* ------------------------------------------------------------------ bounds
MaxCalls == 2
MaxClients == 3
TickMs == 500

\* ------------------------------------------------------------ plain values
Absent == "<absent>"
Undefined == [undefined |-> TRUE]
NoBody == <<>>
NoSignal == <<>>
UserSignal == <<"user", 0>>
ControllerSignal(c) == <<"controller", c>>

\* ------------------------------------------------------------------ headers
\* A HeadersInit is a sequence of <<name, value>> pairs, a value a sequence of
\* the comma-separated parts of the header's text.
ToLowerCase(name) ==
  CASE name = "Accept-Encoding" -> "accept-encoding"
    [] name = "Accept" -> "accept"
    [] name = "Content-Type" -> "content-type"
    [] name = "X-Key" -> "x-key"
    [] OTHER -> name

HeadersAppend(h, name, value) ==
  LET n == ToLowerCase(name)
  IN  [k \in DOMAIN h \cup {n} |->
         IF k = n THEN (IF n \in DOMAIN h THEN h[n] \o value ELSE value) ELSE h[k]]

HeadersSet(h, name, value) ==
  LET n == ToLowerCase(name)
  IN  [k \in DOMAIN h \cup {n} |-> IF k = n THEN value ELSE h[k]]

EmptyHeaders == [k \in {} |-> <<>>]

RECURSIVE HeadersFill(_, _)
HeadersFill(h, init) ==
  IF init = <<>> THEN h
  ELSE HeadersFill(HeadersAppend(h, Head(init)[1], Head(init)[2]), Tail(init))

NewHeaders(init) == HeadersFill(EmptyHeaders, init)

\* ------------------------------------------------------------ mergeRequests
NoInit == [method |-> Absent, body |-> NoBody, signal |-> NoSignal, headers |-> <<>>]

Spread(a, b) ==
  [method  |-> IF b.method # Absent THEN b.method ELSE a.method,
   body    |-> IF b.body # NoBody THEN b.body ELSE a.body,
   signal  |-> IF b.signal # NoSignal THEN b.signal ELSE a.signal,
   headers |-> IF b.headers # <<>> THEN b.headers ELSE a.headers]

RECURSIVE SetAll(_, _, _)
SetAll(merged, h, names) ==
  IF names = {} THEN merged
  ELSE LET n == CHOOSE k \in names : TRUE
       IN  SetAll(HeadersSet(merged, n, h[n]), h, names \ {n})

RECURSIVE MergeLoop(_, _, _)
MergeLoop(mergedResult, mergedHeaders, requests) ==
  IF requests = <<>>
    THEN [method  |-> mergedResult.method,
          body    |-> mergedResult.body,
          signal  |-> mergedResult.signal,
          headers |-> mergedHeaders]
  ELSE LET request == Head(requests)
       IN  IF request = Undefined
             THEN MergeLoop(mergedResult, mergedHeaders, Tail(requests))
           ELSE LET h == NewHeaders(request.headers)
                IN  MergeLoop(Spread(mergedResult, request),
                              SetAll(mergedHeaders, h, DOMAIN h),
                              Tail(requests))

mergeRequests(requests) == MergeLoop(NoInit, EmptyHeaders, requests)

\* ------------------------------------------------------------------ buildUrl
IsAbsoluteUrl(s) == s \in {"https://infinibrowser.wiki/api", "http://localhost:8080"}

\* A parameter value is [str |-> s], [num |-> n] or Undefined.
Str(s) == [str |-> s]
Num(n) == [num |-> n]

String(value) ==
  IF "num" \in DOMAIN value
    THEN (CASE value.num = 0 -> "0" [] value.num = 1 -> "1" [] OTHER -> "NaN")
  ELSE value.str

RECURSIVE AppendParams(_, _)
AppendParams(query, params) ==
  IF params = <<>> THEN query
  ELSE LET key == Head(params)[1]
           value == Head(params)[2]
       IN  AppendParams(IF value # Undefined THEN Append(query, <<key, String(value)>>)
                                             ELSE query,
                        Tail(params))

UrlThrows(api, path) == ~IsAbsoluteUrl(api)

buildUrl(api, path, params) ==
  [base |-> api, path |-> path, query |-> AppendParams(<<>>, params)]

\* ------------------------------------------------------------- configuration
API_URL == "https://infinibrowser.wiki/api"
DEFAULT_TIMEOUT == 1000
DEFAULT_OPTIONS == [API_URL |-> API_URL, timeout |-> DEFAULT_TIMEOUT, request |-> Undefined]

HeaderOverrides ==
  [method |-> "PUT", body |-> NoBody, signal |-> UserSignal,
   headers |-> << <<"X-Key", <<"k1">> >>,
                  <<"accept-encoding", <<"br">> >>,
                  <<"Accept", <<"text/html">> >> >>]

BodyOverrides ==
  [method |-> "PUT", body |-> [text |-> "override"], signal |-> NoSignal,
   headers |-> << <<"X-Key", <<"k2">> >>, <<"x-key", <<"k3">> >> >>]

RequestOverrides == {Undefined, HeaderOverrides, BodyOverrides}
ApiUrls == {API_URL, "infinibrowser.wiki/api"}
Timeouts == {TickMs, DEFAULT_TIMEOUT}

Configs == [API_URL : ApiUrls, timeout : Timeouts, request : RequestOverrides]

\* A merge in which the current request options are kept when both have some.
SpreadConfigKeepingRequest(a, b) ==
  [API_URL |-> b.API_URL,
   timeout |-> b.timeout,
   request |-> IF a.request # Undefined THEN a.request ELSE b.request]

\* { ...a, ...b } on configs: API_URL and timeout are required keys of b, request
\* is optional.
SpreadConfig(a, b) ==
  [API_URL |-> b.API_URL,
   timeout |-> b.timeout,
   request |-> IF b.request # Undefined THEN b.request ELSE a.request]

\* ------------------------------------------------------------------- lineage
Water == [id |-> "Water", emoji |-> "drop"]
Fire == [id |-> "Fire", emoji |-> "flame"]
Steam == [id |-> "Steam", emoji |-> "cloud"]
Engine == [id |-> "Engine", emoji |-> "train"]
Step1 == <<Water, Fire, Steam>>
Step2 == <<Steam, Fire, Engine>>
StepSeqs == {<<>>, <<Step1, Step2>>}

At(steps, i) ==
  IF i < 0
    THEN (IF Len(steps) + i >= 0 THEN steps[Len(steps) + i + 1] ELSE Undefined)
  ELSE (IF i < Len(steps) THEN steps[i + 1] ELSE Undefined)

\* ---------------------------------------------------------------------- JSON
EmptyObject == <<>>
JSONstringify(value) == [json |-> value]

WaterJson == "{\"text\":\"Water\"}"
UnknownElementJson == "{\"code\":404,\"message\":\"Unknown element\"}"
HtmlText == "<html>Bad Gateway</html>"

JSONvalid(text) == text \in {WaterJson, UnknownElementJson}

JSONparse(text) ==
  CASE text = WaterJson -> [text |-> "Water"]
    [] text = UnknownElementJson -> [code |-> 404, message |-> "Unknown element"]

\* -------------------------------------------------------------------- errors
SyntaxError == [class |-> "SyntaxError", name |-> "SyntaxError"]
TypeError == [class |-> "TypeError", name |-> "TypeError"]
AbortError == [class |-> "DOMException", name |-> "AbortError"]
NetworkError == [class |-> "DOMException", name |-> "NetworkError"]
EmptyLineageError == [class |-> "Error", name |-> "Error",
                      message |-> "Lineage must not be empty"]

\* handleError without its SyntaxError branch.
handleErrorNoSyntax(error) ==
  IF error.class = "DOMException" /\ error.name = "AbortError"
    THEN [ok |-> FALSE, error_code |-> "TIMEOUT", error |-> error]
  ELSE [ok |-> FALSE, error_code |-> "UNKNOWN_ERROR", error |-> error]

handleError(error) ==
  IF error.class = "SyntaxError"
    THEN [ok |-> FALSE, error_code |-> "SYNTAX_ERROR", error |-> error]
  ELSE IF error.class = "DOMException"
    THEN (IF error.name = "AbortError"
            THEN [ok |-> FALSE, error_code |-> "TIMEOUT", error |-> error]
          ELSE [ok |-> FALSE, error_code |-> "UNKNOWN_ERROR", error |-> error])
  ELSE [ok |-> FALSE, error_code |-> "UNKNOWN_ERROR", error |-> error]

\* ----------------------------------------------------------- endpoint table
IdMethods == {"getItem", "getLineage", "getCustomLineage", "optimizeLineage"}
OffsetMethods == {"getRecipes", "getUses"}
Methods == IdMethods \cup OffsetMethods \cup {"shareLineage"}

ItemIds == {"Water", "Nope"}
Ids == {"Water"}
Offsets == {0}

\* The calls made: <<method, id, offset, steps>>.
Invocations ==
  ({"getItem"} \X ItemIds \X {0} \X {<<>>})
    \cup (IdMethods \X Ids \X {0} \X {<<>>})
    \cup (OffsetMethods \X Ids \X Offsets \X {<<>>})
    \cup ({"shareLineage"} \X {Absent} \X {0} \X StepSeqs)

Verb(m) == IF m \in {"optimizeLineage", "shareLineage"} THEN "POST" ELSE "GET"

Path(m) ==
  CASE m = "getItem" -> "/item"
    [] m = "getRecipes" -> "/recipes"
    [] m = "getUses" -> "/uses"
    [] m = "getLineage" -> "/recipe"
    [] m = "getCustomLineage" -> "/recipe/custom"
    [] m = "optimizeLineage" -> "/optimize-lineage"
    [] m = "shareLineage" -> "/analytics/share"

Params(i) ==
  IF i.method \in OffsetMethods
    THEN << <<"id", Str(i.id)>>, <<"offset", Num(i.offset)>> >>
  ELSE IF i.method = "shareLineage" THEN <<>>
  ELSE << <<"id", Str(i.id)>> >>

\* shareLineage, up to its call of #post: the payload, or the error it throws.
LineageEmpty(i) == i.method = "shareLineage" /\ At(i.steps, -1) = Undefined

\* The payload taken from the first step instead of the last.
SharePayloadFirst(steps) ==
  LET firstStep == At(steps, 0)
      resultElement == firstStep[3]
  IN  [id |-> resultElement.id, emoji |-> resultElement.emoji, steps |-> steps]

SharePayload(steps) ==
  LET lastStep == At(steps, -1)
      resultElement == lastStep[3]
  IN  [id |-> resultElement.id, emoji |-> resultElement.emoji, steps |-> steps]

Payload(i) ==
  IF i.method = "shareLineage" THEN SharePayload(i.steps) ELSE EmptyObject

\* The options #get and #post hand to #fetchWithTimeout.
GetInit ==
  [method |-> "GET", body |-> NoBody, signal |-> NoSignal,
   headers |-> << <<"Accept", <<"application/json">> >> >>]

PostInit(payload) ==
  [method |-> "POST", body |-> JSONstringify(payload), signal |-> NoSignal,
   headers |-> << <<"Content-Type", <<"application/json">> >> >>]

CallInit(i) == IF Verb(i.method) = "GET" THEN GetInit ELSE PostInit(Payload(i))

ForcedInit(c) ==
  [method |-> Absent, body |-> NoBody, signal |-> ControllerSignal(c),
   headers |-> << <<"Accept-Encoding", <<"gzip", "deflate", "identity">> >> >>]

\* The base request overrides merged after the call's options.
FetchInitBaseLast(config, init, c) ==
  mergeRequests(<<init, config.request, ForcedInit(c)>>)

FetchInit(config, init, c) == mergeRequests(<<config.request, init, ForcedInit(c)>>)

\* new Request(url, init) throws a TypeError for a GET or HEAD with a body.
RequestThrows(init) == init.method \in {"GET", "HEAD"} /\ init.body # NoBody

ResponseOk(status) == status >= 200 /\ status <= 299

\* What the server may answer: a status and the text of the body.
Responses ==
  {[status |-> 200, text |-> WaterJson], [status |-> 404, text |-> UnknownElementJson],
   [status |-> 200, text |-> HtmlText], [status |-> 404, text |-> HtmlText]}

\* ---------------------------------------------------------------------- state
Calls == 1..MaxCalls
NoValue == <<>>

VARIABLES
  clients,      \* the clients constructed so far: their $config
  refinedFrom,  \* per client: <<>> (constructed), or <<parent, the config given to $refined>>
  userAborted,  \* whether the signal given in the request overrides has been aborted
  pc,           \* per call: "idle", "fetch", "text", "returned", "rejected"
  inv,          \* per call: the method called, its arguments and the client
  request,      \* per call: the Request built: its url and merged options
  timer,        \* per call: "none", "pending", "fired", "cleared"
  elapsed,      \* per call: ms its timer has run, up to its timeout; 0 once cleared
  aborted,      \* per call: whether its AbortController has aborted
  response,     \* per call: the Response fetch resolved with
  result,       \* per call: the value its promise fulfilled with
  thrown        \* per call: the error its promise rejected with

vars == <<clients, refinedFrom, userAborted, pc, inv, request, timer, elapsed,
          aborted, response, result, thrown>>
callVars == <<userAborted, pc, inv, request, timer, elapsed, aborted, response,
              result, thrown>>

TypeOK ==
  /\ pc \in [Calls -> {"idle", "fetch", "text", "returned", "rejected"}]
  /\ timer \in [Calls -> {"none", "pending", "fired", "cleared"}]
  /\ aborted \in [Calls -> BOOLEAN]
  /\ userAborted \in BOOLEAN

Config(c) == clients[inv[c].client]

SignalAborted(signal) ==
  IF signal = NoSignal THEN FALSE
  ELSE IF signal = UserSignal THEN userAborted
  ELSE aborted[signal[2]]

\* clearTimeout left out.
ClearTimeoutSkipped(t) == t

\* clearTimeout: a timer that has not fired is cancelled.
ClearTimeout(t) == IF t = "pending" THEN "cleared" ELSE t

\* A cancelled timer no longer runs: its time is dropped.
Finally(c) ==
  /\ timer' = [timer EXCEPT ![c] = ClearTimeout(timer[c])]
  /\ elapsed' = [elapsed EXCEPT ![c] = IF timer'[c] = "cleared" THEN 0 ELSE elapsed[c]]

\* One controller shared by the calls of a client.
AbortTargetsShared(c) == Calls

\* The controller the timer's callback aborts.
AbortTargets(c) == {c}

InitCalls ==
  /\ userAborted = FALSE
  /\ pc = [c \in Calls |-> "idle"]
  /\ inv = [c \in Calls |-> NoValue]
  /\ request = [c \in Calls |-> NoValue]
  /\ timer = [c \in Calls |-> "none"]
  /\ elapsed = [c \in Calls |-> 0]
  /\ aborted = [c \in Calls |-> FALSE]
  /\ response = [c \in Calls |-> NoValue]
  /\ result = [c \in Calls |-> NoValue]
  /\ thrown = [c \in Calls |-> NoValue]

\* new Infinibrowser(config)
Init ==
  /\ \E config \in Configs : clients = <<config>>
  /\ refinedFrom = <<NoValue>>
  /\ InitCalls

\* The synchronous part of an endpoint method: up to the first await, or to the
\* error that ends it.
Call(c, i) ==
  /\ pc[c] = "idle"
  /\ \A d \in Calls : d < c => pc[d] # "idle"
  /\ inv' = [inv EXCEPT ![c] = i]
  /\ LET config == clients[i.client]
         method == i.method
     IN  IF LineageEmpty(i)
           THEN /\ pc' = [pc EXCEPT ![c] = "rejected"]
                /\ thrown' = [thrown EXCEPT ![c] = EmptyLineageError]
                /\ UNCHANGED <<request, timer, result>>
         ELSE IF UrlThrows(config.API_URL, Path(method))
           THEN /\ pc' = [pc EXCEPT ![c] = "rejected"]
                /\ thrown' = [thrown EXCEPT ![c] = TypeError]
                /\ UNCHANGED <<request, timer, result>>
         ELSE LET url == buildUrl(config.API_URL, Path(method), Params(i))
                  requestInit == FetchInit(config, CallInit(i), c)
              IN  IF RequestThrows(requestInit)
                    THEN /\ pc' = [pc EXCEPT ![c] = "returned"]
                         /\ result' = [result EXCEPT ![c] = handleError(TypeError)]
                         /\ timer' = [timer EXCEPT ![c] = ClearTimeout("pending")]
                         /\ UNCHANGED <<request, thrown>>
                  ELSE /\ pc' = [pc EXCEPT ![c] = "fetch"]
                       /\ request' = [request EXCEPT ![c] = [url |-> url, init |-> requestInit]]
                       /\ timer' = [timer EXCEPT ![c] = "pending"]
                       /\ UNCHANGED <<result, thrown>>
  /\ UNCHANGED <<clients, refinedFrom, userAborted, elapsed, aborted, response>>

\* fetch resolves with a response: the call goes on to read its body.
FetchRespond(c, status, text) ==
  /\ pc[c] = "fetch"
  /\ ~SignalAborted(request[c].init.signal)
  /\ response' = [response EXCEPT ![c] = [status |-> status, text |-> text, of |-> c]]
  /\ pc' = [pc EXCEPT ![c] = "text"]
  /\ UNCHANGED <<clients, refinedFrom, userAborted, inv, request, timer, elapsed,
                 aborted, result, thrown>>

\* catch (error) { return handleError(error) } finally { clearTimeout(timeout) }
Caught(c, error) ==
  /\ result' = [result EXCEPT ![c] = handleError(error)]
  /\ Finally(c)
  /\ pc' = [pc EXCEPT ![c] = "returned"]
  /\ UNCHANGED <<clients, refinedFrom, userAborted, inv, request, aborted,
                 response, thrown>>

\* fetch rejects: the network failed.
FetchFail(c, error) ==
  /\ pc[c] = "fetch"
  /\ ~SignalAborted(request[c].init.signal)
  /\ Caught(c, error)

\* fetch rejects: the request's signal has aborted.
FetchAbort(c) ==
  /\ pc[c] = "fetch"
  /\ SignalAborted(request[c].init.signal)
  /\ Caught(c, AbortError)

\* Parsed without the branch on response.ok.
ParsedIgnoringStatus(c, text) ==
  IF ~JSONvalid(text) THEN handleError(SyntaxError)
  ELSE [ok |-> TRUE, data |-> JSONparse(text), response |-> response[c]]

\* response.clone().text() resolves: the body is parsed and the result returned.
Parsed(c, text) ==
  IF ~JSONvalid(text) THEN handleError(SyntaxError)
  ELSE IF ~ResponseOk(response[c].status)
    THEN [ok |-> FALSE, error_code |-> "NOT_OK", data |-> JSONparse(text),
          response |-> response[c]]
  ELSE [ok |-> TRUE, data |-> JSONparse(text), response |-> response[c]]

\* The data of a success taken from the status line instead of the body.
TextDoneDroppingBody(c) ==
  /\ pc[c] = "text"
  /\ ~SignalAborted(request[c].init.signal)
  /\ result' = [result EXCEPT ![c] =
                  IF ResponseOk(response[c].status)
                    THEN [ok |-> TRUE, data |-> [text |-> "OK"], response |-> response[c]]
                  ELSE Parsed(c, response[c].text)]
  /\ Finally(c)
  /\ pc' = [pc EXCEPT ![c] = "returned"]
  /\ UNCHANGED <<clients, refinedFrom, userAborted, inv, request, aborted,
                 response, thrown>>

TextDone(c) ==
  /\ pc[c] = "text"
  /\ ~SignalAborted(request[c].init.signal)
  /\ result' = [result EXCEPT ![c] = Parsed(c, response[c].text)]
  /\ Finally(c)
  /\ pc' = [pc EXCEPT ![c] = "returned"]
  /\ UNCHANGED <<clients, refinedFrom, userAborted, inv, request, aborted,
                 response, thrown>>

\* response.clone().text() rejects: the connection broke while the body was read.
TextFail(c, error) ==
  /\ pc[c] = "text"
  /\ ~SignalAborted(request[c].init.signal)
  /\ Caught(c, error)

\* response.clone().text() rejects: the signal aborted while the body was read.
TextAbort(c) ==
  /\ pc[c] = "text"
  /\ SignalAborted(request[c].init.signal)
  /\ Caught(c, AbortError)

\* Time passes for every running timer.
Tick ==
  /\ \E c \in Calls : timer[c] = "pending" /\ elapsed[c] < Config(c).timeout
  /\ elapsed' = [c \in Calls |->
                   IF timer[c] = "pending" /\ elapsed[c] < Config(c).timeout
                     THEN (IF elapsed[c] + TickMs < Config(c).timeout
                             THEN elapsed[c] + TickMs ELSE Config(c).timeout)
                   ELSE elapsed[c]]
  /\ UNCHANGED <<clients, refinedFrom, userAborted, pc, inv, request, timer, aborted,
                 response, result, thrown>>

\* The timer set without its delay.
TimerFireNoDelay(c) ==
  /\ timer[c] = "pending"
  /\ timer' = [timer EXCEPT ![c] = "fired"]
  /\ aborted' = [d \in Calls |-> IF d \in AbortTargets(c) THEN TRUE ELSE aborted[d]]
  /\ UNCHANGED <<clients, refinedFrom, userAborted, pc, inv, request, elapsed,
                 response, result, thrown>>

\* setTimeout(() => controller.abort(), this.$config.timeout): the callback runs.
TimerFire(c) ==
  /\ timer[c] = "pending"
  /\ elapsed[c] >= Config(c).timeout
  /\ timer' = [timer EXCEPT ![c] = "fired"]
  /\ aborted' = [d \in Calls |-> IF d \in AbortTargets(c) THEN TRUE ELSE aborted[d]]
  /\ UNCHANGED <<clients, refinedFrom, userAborted, pc, inv, request, elapsed,
                 response, result, thrown>>

\* The owner of the signal in the request overrides aborts it.
UserAbort ==
  /\ ~userAborted
  /\ \E k \in DOMAIN clients :
        clients[k].request # Undefined /\ clients[k].request.signal = UserSignal
  /\ userAborted' = TRUE
  /\ UNCHANGED <<clients, refinedFrom, pc, inv, request, timer, elapsed, aborted,
                 response, result, thrown>>

NetworkErrors == {TypeError, NetworkError}

Next ==
  \/ \E c \in Calls, i \in Invocations :
        Call(c, [method |-> i[1], id |-> i[2], offset |-> i[3], steps |-> i[4],
                 client |-> 1])
  \/ \E c \in Calls, r \in Responses : FetchRespond(c, r.status, r.text)
  \/ \E c \in Calls, error \in NetworkErrors : FetchFail(c, error)
  \/ \E c \in Calls : FetchAbort(c)
  \/ \E c \in Calls : TextDone(c)
  \/ \E c \in Calls : TextFail(c, TypeError)
  \/ \E c \in Calls : TextAbort(c)
  \/ \E c \in Calls : TimerFire(c)
  \/ Tick
  \/ UserAbort

Spec == Init /\ [][Next]_vars

\* The event loop runs a due timer's callback and settles an aborted request;
\* time passes while a timer is pending.
Fairness ==
  /\ WF_vars(Tick)
  /\ \A c \in Calls :
        WF_vars(TimerFire(c)) /\ WF_vars(FetchAbort(c)) /\ WF_vars(TextAbort(c))

FairSpec == Spec /\ Fairness

\* $refined(config): a new client; the client it is called on stays as it is.
Refined(k, config) ==
  /\ Len(clients) < MaxClients
  /\ clients' = Append(clients, SpreadConfig(clients[k], config))
  /\ refinedFrom' = Append(refinedFrom, <<k, config>>)
  /\ UNCHANGED callVars

RefineNext == \E k \in DOMAIN clients, config \in Configs : Refined(k, config)

RefineSpec == Init /\ [][RefineNext]_vars

\* ===================================================================== claims
Returned(c) == pc[c] = "returned"
ErrorCode(c) ==
  IF Returned(c) /\ ~result[c].ok THEN result[c].error_code ELSE "none"
Success(c) == Returned(c) /\ result[c].ok

\* C1: a call of an endpoint method never rejects, except shareLineage called
\* with an empty step sequence; every other call ends with a Result returned.
C1_NeverRejects ==
  \A c \in Calls :
    pc[c] = "rejected" => (inv[c].method = "shareLineage" /\ inv[c].steps = <<>>)

\* C2 as stated: whenever a non-2xx response has been received (and its body
\* read), the call returns NOT_OK, and no other variant.
C2_NonOkAlwaysNotOk ==
  [][\A c \in Calls :
       (TextDone(c) /\ ~ResponseOk(response[c].status))
         => (~result'[c].ok /\ result'[c].error_code = "NOT_OK")]_vars

\* C2 as amended: when the body of a non-2xx response has been read, the call
\* returns (as a value) NOT_OK with the JSON-parsed body and the response handle
\* if the body is valid JSON and SYNTAX_ERROR if it is not; a call that received
\* a non-2xx response never returns Success.
C2_NonOkBodyRead ==
  [][\A c \in Calls :
       /\ (TextDone(c) /\ ~ResponseOk(response[c].status))
            => /\ pc'[c] = "returned"
               /\ thrown'[c] = NoValue
               /\ IF response[c].text \in {WaterJson, UnknownElementJson}
                    THEN result'[c] = [ok |-> FALSE, error_code |-> "NOT_OK",
                                       data |-> JSONparse(response[c].text),
                                       response |-> response[c]]
                    ELSE /\ ~result'[c].ok
                         /\ result'[c].error_code = "SYNTAX_ERROR"
       /\ (pc'[c] = "returned" /\ response'[c] # NoValue
              /\ ~ResponseOk(response'[c].status))
            => ~result'[c].ok]_vars

C2_Witness ==
  \E c \in Calls :
    /\ ErrorCode(c) = "NOT_OK"
    /\ inv[c].method = "getItem"
    /\ response[c].status = 404
    /\ result[c].data = [code |-> 404, message |-> "Unknown element"]

\* C3: when the body of a 2xx response to getItem(id) has been read and is JSON,
\* the call returns Success whose data is the parsed body, with the response
\* handle; getItem("Water") answered with the Water item gives data.text = "Water".
C3_GetItemSuccess ==
  [][\A c \in Calls :
       (TextDone(c) /\ inv[c].method = "getItem" /\ ResponseOk(response[c].status)
          /\ response[c].text \in {WaterJson, UnknownElementJson})
         => /\ pc'[c] = "returned"
            /\ result'[c] = [ok |-> TRUE, data |-> JSONparse(response[c].text),
                              response |-> response[c]]
            /\ (inv[c].id = "Water" /\ response[c].text = WaterJson)
                 => result'[c].data.text = inv[c].id]_vars

C3_Witness ==
  \E c \in Calls :
    /\ Success(c)
    /\ inv[c].method = "getItem" /\ inv[c].id = "Water"
    /\ result[c].data = [text |-> "Water"]
    /\ result[c].response.status = 200

\* C5: when the body of a response has been read and is not valid JSON, the call
\* returns SYNTAX_ERROR carrying the parse error; no call rejects with it.
C5_SyntaxError ==
  [][\A c \in Calls :
       /\ (TextDone(c) /\ response[c].text = HtmlText)
            => /\ pc'[c] = "returned"
               /\ result'[c] = [ok |-> FALSE, error_code |-> "SYNTAX_ERROR",
                                 error |-> SyntaxError]
       /\ thrown'[c] # SyntaxError]_vars

C5_Witness ==
  \E c \in Calls :
    /\ ErrorCode(c) = "SYNTAX_ERROR"
    /\ response[c].text = HtmlText
    /\ result[c].error = SyntaxError

\* C6: shareLineage with no step rejects with "Lineage must not be empty" and
\* builds no request, starts no timer and issues no network call; a request to
\* /analytics/share exists only for a non-empty sequence, and its payload's id
\* and emoji are those of the last step's result element.
C6_ShareLineage ==
  \A c \in Calls :
    /\ (inv[c] # NoValue /\ inv[c].method = "shareLineage" /\ inv[c].steps = <<>>)
         => /\ pc[c] = "rejected"
            /\ thrown[c].message = "Lineage must not be empty"
            /\ request[c] = NoValue
            /\ timer[c] = "none"
            /\ response[c] = NoValue
            /\ result[c] = NoValue
    /\ (request[c] # NoValue /\ request[c].url.path = "/analytics/share")
         => /\ inv[c].method = "shareLineage"
            /\ Len(inv[c].steps) > 0
            /\ request[c].init.method = "POST"
            /\ request[c].init.body.json.id = inv[c].steps[Len(inv[c].steps)][3].id
            /\ request[c].init.body.json.emoji = inv[c].steps[Len(inv[c].steps)][3].emoji
            /\ request[c].init.body.json.steps = inv[c].steps

C6_Witness ==
  \E c, d \in Calls :
    /\ pc[c] = "rejected" /\ inv[c].method = "shareLineage" /\ inv[c].steps = <<>>
    /\ request[d] # NoValue /\ inv[d].steps = <<Step1, Step2>>
    /\ request[d].init.body.json.id = "Engine"

\* C8: on every exit path the call's timer is cleared before it returns: no
\* finished call has a pending timer, and neither its timer nor its controller
\* changes once it has finished.
C8_TimerCleared ==
  /\ [](\A c \in Calls : pc[c] \in {"returned", "rejected"} => timer[c] # "pending")
  /\ [][\A c \in Calls :
          pc[c] \in {"returned", "rejected"}
            => (timer'[c] = timer[c] /\ aborted'[c] = aborted[c])]_vars

C8_Witness ==
  \E c, d \in Calls :
    /\ Success(c) /\ timer[c] = "cleared"
    /\ ErrorCode(d) \in {"NOT_OK", "SYNTAX_ERROR", "UNKNOWN_ERROR"} /\ timer[d] = "cleared"

\* C4: TIMEOUT is returned only by a call whose own timer fired, after the whole
\* timeout has elapsed on it and with its request aborted; and a call waiting
\* for a response that gets neither a response nor a network failure
\* eventually returns TIMEOUT.
C4_Timeout ==
  /\ [](\A c \in Calls :
          ErrorCode(c) = "TIMEOUT"
            => /\ timer[c] = "fired"
               /\ elapsed[c] >= clients[inv[c].client].timeout
               /\ aborted[c]
               /\ result[c].error = AbortError)
  /\ \A c \in Calls :
        (pc[c] = "fetch")
          ~> \/ response[c] # NoValue
             \/ (ErrorCode(c) = "UNKNOWN_ERROR" /\ response[c] = NoValue)
             \/ (ErrorCode(c) = "TIMEOUT" /\ response[c] = NoValue)

C4_Witness ==
  \E c \in Calls :
    /\ ErrorCode(c) = "TIMEOUT"
    /\ response[c] = NoValue
    /\ clients[inv[c].client].timeout = DEFAULT_TIMEOUT
    /\ elapsed[c] = DEFAULT_TIMEOUT

\* C9: the request sent is the merge of the base overrides, the call's options
\* and the forced options, in that order: the call's method and body and the
\* call's own signal win; every header of an input is in the request with the
\* value of the last input defining it; Accept-Encoding is the forced value.
RECURSIVE ValueIn(_, _)
ValueIn(list, n) ==
  IF list = <<>> THEN <<>>
  ELSE (IF ToLowerCase(Head(list)[1]) = n THEN Head(list)[2] ELSE <<>>)
         \o ValueIn(Tail(list), n)
Defines(list, n) == \E j \in DOMAIN list : ToLowerCase(list[j][1]) = n
HeaderInputs(c) ==
  << IF Config(c).request = Undefined THEN <<>> ELSE Config(c).request.headers,
     IF inv[c].method \in {"optimizeLineage", "shareLineage"}
       THEN << <<"Content-Type", <<"application/json">> >> >>
       ELSE << <<"Accept", <<"application/json">> >> >>,
     << <<"Accept-Encoding", <<"gzip", "deflate", "identity">> >> >> >>

C9_MergedRequest ==
  \A c \in Calls :
    request[c] # NoValue =>
      LET r == request[c].init
          inputs == HeaderInputs(c)
          post == inv[c].method \in {"optimizeLineage", "shareLineage"}
      IN  /\ r.method = (IF post THEN "POST" ELSE "GET")
          /\ r.signal = <<"controller", c>>
          /\ post => ("json" \in DOMAIN r.body)
          /\ \A j \in 1..3 : \A e \in DOMAIN inputs[j] :
                ToLowerCase(inputs[j][e][1]) \in DOMAIN r.headers
          /\ \A n \in DOMAIN r.headers :
                /\ \E j \in 1..3 : Defines(inputs[j], n)
                /\ LET last == CHOOSE j \in 1..3 :
                                 /\ Defines(inputs[j], n)
                                 /\ \A k \in 1..3 : Defines(inputs[k], n) => k <= j
                   IN  r.headers[n] = ValueIn(inputs[last], n)
          /\ r.headers["accept-encoding"] = <<"gzip", "deflate", "identity">>

C9_Witness ==
  \E c, d \in Calls :
    /\ request[c] # NoValue /\ request[d] # NoValue
    /\ clients[1].request = HeaderOverrides
    /\ inv[c].method = "getItem"
    /\ request[c].init.method = "GET"
    /\ request[c].init.signal = ControllerSignal(c)
    /\ request[c].init.headers["accept"] = <<"application/json">>
    /\ request[c].init.headers["x-key"] = <<"k1">>
    /\ inv[d].method = "shareLineage"
    /\ request[d].init.method = "POST"
    /\ request[d].init.headers["accept"] = <<"text/html">>

\* C10: concurrent calls do not affect each other: a call's timer aborts only
\* that call's controller, a step of one call leaves every other call's request,
\* response, timer, controller and result unchanged, no step changes a client's
\* config, and a call returns TIMEOUT only if its own timer fired.
C10_Isolation ==
  /\ [][/\ clients' = clients
         /\ \A c \in Calls :
              /\ (timer[c] = "pending" /\ timer'[c] = "fired")
                   => \A d \in Calls \ {c} : aborted'[d] = aborted[d]
              /\ (pc'[c] # pc[c])
                   => \A d \in Calls \ {c} :
                        /\ pc'[d] = pc[d] /\ request'[d] = request[d]
                        /\ response'[d] = response[d] /\ result'[d] = result[d]
                        /\ timer'[d] = timer[d] /\ aborted'[d] = aborted[d]
                        /\ thrown'[d] = thrown[d]]_vars
  /\ [](\A c \in Calls : (Returned(c) /\ aborted[c]) => timer[c] = "fired")
  /\ [](\A c \in Calls : ErrorCode(c) = "TIMEOUT" => timer[c] = "fired")

C10_Witness ==
  \E c, d \in Calls :
    /\ c # d
    /\ ErrorCode(c) = "TIMEOUT" /\ timer[c] = "fired"
    /\ Success(d) /\ timer[d] = "cleared" /\ ~aborted[d]
    /\ result[d].response.of = d

\* C7 as stated: every header of the original client's request overrides is
\* still a header of the refined client's request overrides, with the refining
\* config's value where both set it.
C7_HeadersMerged ==
  \A k \in DOMAIN clients :
    (refinedFrom[k] # NoValue /\ clients[refinedFrom[k][1]].request # Undefined)
      => LET original == NewHeaders(clients[refinedFrom[k][1]].request.headers)
             given == refinedFrom[k][2].request
         IN  /\ clients[k].request # Undefined
             /\ \A n \in DOMAIN original :
                   /\ n \in DOMAIN NewHeaders(clients[k].request.headers)
                   /\ NewHeaders(clients[k].request.headers)[n] =
                        IF given # Undefined /\ n \in DOMAIN NewHeaders(given.headers)
                          THEN NewHeaders(given.headers)[n]
                        ELSE original[n]

\* C7 as amended: the refined client's config has the given API_URL and timeout,
\* and the given request options, headers included, in place of the original's
\* when the given config has request options, the original's when it has none;
\* the config of an existing client never changes.
C7_ShallowMerge ==
  /\ [](\A k \in DOMAIN clients :
          refinedFrom[k] # NoValue
            => LET original == clients[refinedFrom[k][1]]
                   given == refinedFrom[k][2]
               IN  /\ clients[k].API_URL = given.API_URL
                   /\ clients[k].timeout = given.timeout
                   /\ given.request # Undefined => clients[k].request = given.request
                   /\ given.request = Undefined => clients[k].request = original.request)
  /\ [][\A k \in DOMAIN clients : clients'[k] = clients[k]]_vars

C7_Witness ==
  \E k \in DOMAIN clients :
    /\ refinedFrom[k] # NoValue
    /\ clients[refinedFrom[k][1]].request = HeaderOverrides
    /\ refinedFrom[k][2].request = BodyOverrides
    /\ clients[k].request = BodyOverrides
    /\ "accept" \notin DOMAIN NewHeaders(clients[k].request.headers)

====
